---- MODULE Spec2Model ----
(***************************************************************************)
(* Model of api/deploy.js: one HTTP handler (module.exports) over the      *)
(* process-wide quota store deploymentData, with the helpers getQuotaInfo, *)
(* saveQuotaInfo and isSafeFile.                                           *)
(*                                                                         *)
(* JavaScript runs a handler without interruption up to its await, so one  *)
(* action is one such segment: a quota-check request, a deploy request up  *)
(* to its return or its await of axios.post, and the continuation of a     *)
(* deploy request after the await (success, name taken, other failure).    *)
(* Quota records are objects: the map and the requests in flight hold      *)
(* references to them, so a record is an entry of the heap objs and        *)
(* deploymentData maps a client to a heap address.                         *)
(***************************************************************************)
EXTENDS Integers, Sequences, FiniteSets, TLC

VARIABLES
    now,             \* Date.now(), in milliseconds
    deploymentData,  \* the Map: client id -> address of its record, NoRec if none
    objs,            \* the heap: address -> record
    reqs,            \* the deploy requests suspended at await axios.post, by slot
    last,            \* the last response sent, and when (observation)
    ticks,           \* how often the clock moved (bounds the run)
    hist             \* per client: what happened to it so far (observation)

vars == <<now, deploymentData, objs, reqs, last, ticks, hist>>

----------------------------------------------------------------------------
(* Program constants *)

DailyLimit == 50
CooldownMs == 5 * 60 * 1000
DayMs == 24 * 60 * 60 * 1000
TimeoutMs == 30000

(* Bounds of the model *)

MaxTicks == 2        \* clock moves of a run
MaxExhaustTicks == 1 \* date changes of a run that charges a record down to 0
MaxCharges == 2      \* charges applied to one record before its next reset
MaxDrainTicks == 26  \* clock moves of a run that uses up a day's quota
MaxCooldownTicks == 3 \* clock moves of a run that watches a cooldown run down

Clients == {1, 2}
Deployers == {1}     \* the clients that deploy; the others only ask for their quota
Slots == {1, 2}
Addrs == 1..(Cardinality(Clients) + Cardinality(Slots))
NoRec == 0

\* new Date().toDateString(): the calendar date of now, as a day number
Today(t) == t \div DayMs

\* the record literal of getQuotaInfo; lastDeployment null is 0
FreshRecord(t) ==
    [remaining |-> DailyLimit, lastReset |-> Today(t),
     lastDeployment |-> 0, cooldownUntil |-> 0]

\* the content of a heap address nothing refers to
NullRec == [remaining |-> 0, lastReset |-> 0, lastDeployment |-> 0, cooldownUntil |-> 0]

\* a request slot: pc, the handler's clientId and quotaInfo, the axios timeout's
\* deadline and the files sent; stored and admitted observe remaining as the
\* map held it when the request arrived (-1: no record) and as the lookup returned it
Idle == [pc |-> "idle", clientId |-> 0, quotaInfo |-> NoRec, stored |-> 0, admitted |-> 0,
         deadline |-> 0, files |-> <<>>]

NoResponse == [kind |-> "none", clientId |-> 0, status |-> 0, remainingQuota |-> 0,
               cooldown |-> FALSE, remainingSeconds |-> 0, at |-> 0]

----------------------------------------------------------------------------
(* The heap *)

Referenced(dd, rq) ==
    {dd[c] : c \in Clients} \cup {rq[s].quotaInfo : s \in Slots}

\* garbage collection: an address nothing refers to holds NullRec
Collect(dd, ob, rq) ==
    [a \in Addrs |-> IF a \in Referenced(dd, rq) THEN ob[a] ELSE NullRec]

FreeAddr(dd, rq) ==
    CHOOSE a \in Addrs : a \notin Referenced(dd, rq)
                         /\ \A b \in Addrs : b \notin Referenced(dd, rq) => a <= b

----------------------------------------------------------------------------
(* getQuotaInfo(clientId), lines 182-210 *)

\* lines 186-193: create the record when the map has none
GQCreate(dd, ob, rq, c, t) ==
    IF dd[c] = NoRec
    THEN LET a == FreeAddr(dd, rq)
         IN [dd |-> [dd EXCEPT ![c] = a], ob |-> [ob EXCEPT ![a] = FreshRecord(t)]]
    ELSE [dd |-> dd, ob |-> ob]

\* lines 195-200: reset on a new date
GQReset(rec, t) ==
    IF rec.lastReset # Today(t)
    THEN [rec EXCEPT !.remaining = DailyLimit, !.lastReset = Today(t), !.cooldownUntil = 0]
    ELSE rec

\* the sweep's condition without the default for a record that has no deployment
Expired_NoDefault(rec, t) == t - rec.lastDeployment > DayMs

\* line 204: the sweep's condition; (value.lastDeployment || now)
Expired(rec, t) ==
    t - (IF rec.lastDeployment = 0 THEN t ELSE rec.lastDeployment) > DayMs

\* lines 203-207: the sweep over the whole map
Sweep(dd, ob, t) ==
    [k \in Clients |-> IF dd[k] # NoRec /\ Expired(ob[dd[k]], t) THEN NoRec ELSE dd[k]]

\* the map, the heap and the returned reference (data) after the call
getQuotaInfo(dd, ob, rq, c, t) ==
    LET cr == GQCreate(dd, ob, rq, c, t)
        data == cr.dd[c]
        ob2 == [cr.ob EXCEPT ![data] = GQReset(cr.ob[data], t)]
    IN [dd |-> Sweep(cr.dd, ob2, t), ob |-> ob2, data |-> data]

\* saveQuotaInfo(clientId, info), lines 212-214
saveQuotaInfo(dd, c, info) == [dd EXCEPT ![c] = info]

\* the seconds rounded down
CeilSeconds_Floor(x) == x \div 1000

\* Math.ceil(x / 1000) for an integer x
CeilSeconds(x) == IF x % 1000 = 0 THEN x \div 1000 ELSE (x \div 1000) + 1

----------------------------------------------------------------------------
(* Strings are sequences of one-character strings *)

UpperChars == <<"A","B","C","D","E","F","G","H","I","J","K","L","M",
                "N","O","P","Q","R","S","T","U","V","W","X","Y","Z">>
LowerChars == <<"a","b","c","d","e","f","g","h","i","j","k","l","m",
                "n","o","p","q","r","s","t","u","v","w","x","y","z">>
Digits == {"0","1","2","3","4","5","6","7","8","9"}

Range(f) == {f[i] : i \in DOMAIN f}

\* String.prototype.toLowerCase
toLowerChar(ch) ==
    IF \E i \in DOMAIN UpperChars : UpperChars[i] = ch
    THEN LowerChars[CHOOSE i \in DOMAIN UpperChars : UpperChars[i] = ch]
    ELSE ch
toLowerCase(str) == [i \in DOMAIN str |-> toLowerChar(str[i])]

\* String.prototype.endsWith, includes, startsWith
endsWith(str, suf) ==
    /\ Len(suf) <= Len(str)
    /\ SubSeq(str, Len(str) - Len(suf) + 1, Len(str)) = suf
includes(str, sub) ==
    \E i \in 1..(Len(str) - Len(sub) + 1) : SubSeq(str, i, i + Len(sub) - 1) = sub
startsWith(str, pre) ==
    /\ Len(pre) <= Len(str)
    /\ SubSeq(str, 1, Len(pre)) = pre

\* the pattern without its anchors: some character of the name is in the class
NameMatches_Unanchored(name) ==
    \E i \in DOMAIN name : name[i] \in Range(LowerChars) \cup Digits \cup {"-"}

\* line 37: /^[a-z0-9-]+$/.test(name)
NameMatches(name) ==
    /\ Len(name) >= 1
    /\ \A i \in DOMAIN name : name[i] \in Range(LowerChars) \cup Digits \cup {"-"}

\* the position of the last ch in str, 0 if none
LastIndexOf(str, ch) ==
    IF \E i \in DOMAIN str : str[i] = ch
    THEN CHOOSE i \in DOMAIN str : str[i] = ch /\ \A j \in DOMAIN str : str[j] = ch => j <= i
    ELSE 0

\* str without its trailing slashes
RECURSIVE StripSlashes(_)
StripSlashes(str) ==
    IF Len(str) > 1 /\ str[Len(str)] = "/"
    THEN StripSlashes(SubSeq(str, 1, Len(str) - 1))
    ELSE str

\* path.basename (posix): the last segment of the path
basename(filePath) ==
    LET p == StripSlashes(filePath)
    IN IF p = <<"/">> THEN <<>> ELSE SubSeq(p, LastIndexOf(p, "/") + 1, Len(p))

\* path.extname (posix): from the last dot of the last segment, "" when that
\* segment has no dot or only a leading one
extname(filePath) ==
    LET b == basename(filePath)
        d == LastIndexOf(b, ".")
    IN IF d <= 1 \/ b = <<".", ".">> THEN <<>> ELSE SubSeq(b, d, Len(b))

\* line 218-220
safeExtensions ==
    { <<".","h","t","m","l">>, <<".","h","t","m">>, <<".","c","s","s">>, <<".","j","s">>,
      <<".","j","s","o","n">>, <<".","t","x","t">>, <<".","m","d">>, <<".","j","p","g">>,
      <<".","j","p","e","g">>, <<".","p","n","g">>, <<".","g","i","f">>, <<".","s","v","g">>,
      <<".","i","c","o">>, <<".","w","o","f","f">>, <<".","w","o","f","f","2">>,
      <<".","t","t","f">>, <<".","e","o","t">>, <<".","w","e","b","p">> }

\* isSafeFile(filePath), lines 216-229
isSafeFile(filePath) ==
    LET ext == toLowerCase(extname(filePath))
        base == basename(filePath)
    IN IF ext \notin safeExtensions THEN FALSE
       ELSE IF includes(filePath, <<".", ".">>) \/ includes(filePath, <<"/", "/">>) THEN FALSE
       ELSE IF startsWith(base, <<".">>) /\ base # <<".","h","t","a","c","c","e","s","s">>
            THEN FALSE
       ELSE TRUE

----------------------------------------------------------------------------
(* The requests a client sends *)

IndexHtml == <<"i","n","d","e","x",".","h","t","m","l">>

\* req.body.name: a valid name, "My Site", and a missing name
Names == { <<"m","y","-","s","i","t","e","1">>, <<"M","y"," ","S","i","t","e">>, <<>> }

\* an archive entry: entryName, isDirectory and its content
Entry(n, dir, d) == [entryName |-> n, isDirectory |-> dir, data |-> d]

\* index.html, a.exe and ../../etc/passwd
ArchiveMixed ==
    << Entry(IndexHtml, FALSE, "d1"),
       Entry(<<"a",".","e","x","e">>, FALSE, "d2"),
       Entry(<<".",".","/",".",".","/","e","t","c","/","p","a","s","s","w","d">>, FALSE, "d3") >>

\* no index.html at the root: a directory, a page and an index.html below the root
ArchiveNoIndex ==
    << Entry(<<"s","u","b","/">>, TRUE, ""),
       Entry(<<"a",".","c","s","s">>, FALSE, "d4"),
       Entry(<<"s","u","b","/","i","n","d","e","x",".","h","t","m","l">>, FALSE, "d5") >>

\* an upper-case index and a .htaccess
ArchiveUpper ==
    << Entry(<<"I","N","D","E","X",".","H","T","M","L">>, FALSE, "d6"),
       Entry(<<".","h","t","a","c","c","e","s","s">>, FALSE, "d7") >>

\* req.body.fileName, req.body.fileData and what AdmZip reads from fileData
\* (zipOk: FALSE when new AdmZip throws on the buffer)
Upload(fn, fd, ok, es) == [fileName |-> fn, fileData |-> fd, zipOk |-> ok, entries |-> es]

Uploads ==
    { Upload(<<"p","a","g","e",".","h","t","m">>, "html64", FALSE, <<>>),
      Upload(<<"s",".","Z","I","P">>, "zip64", TRUE, ArchiveMixed),
      Upload(<<"s",".","z","i","p">>, "zip64", TRUE, ArchiveNoIndex),
      Upload(<<"s",".","z","i","p">>, "zip64", TRUE, ArchiveUpper),
      Upload(<<"s",".","z","i","p">>, "bad64", FALSE, <<>>),
      Upload(<<"a",".","t","x","t">>, "txt64", FALSE, <<>>),
      Upload(<<"p",".","h","t","m","l">>, "", FALSE, <<>>),
      Upload(<<>>, "html64", FALSE, <<>>) }

ValidName == <<"m","y","-","s","i","t","e","1">>
HtmlUpload == Upload(<<"p","a","g","e",".","h","t","m">>, "html64", FALSE, <<>>)

\* the requests sent: [name, upload, token (process.env.VERCEL_TOKEN is set)]
Request(n, up, tok) == [name |-> n, upload |-> up, token |-> tok]
Requests ==
    {Request(ValidName, up, TRUE) : up \in Uploads}
    \cup {Request(n, HtmlUpload, TRUE) : n \in Names}
    \cup {Request(ValidName, HtmlUpload, FALSE)}

\* a page under a valid name, "My Site", and a request without a name
PlainRequests == {Request(n, HtmlUpload, TRUE) : n \in Names}

\* an extraction that keeps every file of the archive, safe or not
Extract_Unfiltered(es) ==
    LET fs == SelectSeq(es, LAMBDA e : ~e.isDirectory)
    IN [i \in DOMAIN fs |-> [filepath |-> fs[i].entryName, content |-> fs[i].data]]

\* lines 66-75: the entries kept, as {filepath, content}
RECURSIVE Extract(_)
Extract(es) ==
    IF es = <<>> THEN <<>>
    ELSE LET e == Head(es)
         IN IF ~e.isDirectory /\ isSafeFile(e.entryName)
            THEN <<[filepath |-> e.entryName, content |-> e.data]>> \o Extract(Tail(es))
            ELSE Extract(Tail(es))

\* the file processing without the requirement of line 77
ProcessFiles_NoIndexCheck(up) ==
    LET fn == toLowerCase(up.fileName)
    IN IF endsWith(fn, <<".","z","i","p">>)
       THEN IF ~up.zipOk THEN [err |-> "serverError", files |-> <<>>]
            ELSE [err |-> "", files |-> Extract(up.entries)]
       ELSE IF endsWith(fn, <<".","h","t","m","l">>) \/ endsWith(fn, <<".","h","t","m">>)
       THEN [err |-> "", files |-> <<[filepath |-> IndexHtml, content |-> up.fileData]>>]
       ELSE [err |-> "badType", files |-> <<>>]

\* lines 58-90: the file set, or the error response of the file processing
ProcessFiles(up) ==
    LET fn == toLowerCase(up.fileName)
    IN IF endsWith(fn, <<".","z","i","p">>)
       THEN IF ~up.zipOk THEN [err |-> "serverError", files |-> <<>>]
            ELSE LET files == Extract(up.entries)
                 IN IF ~\E i \in DOMAIN files : toLowerCase(files[i].filepath) = IndexHtml
                    THEN [err |-> "zipNoIndex", files |-> <<>>]
                    ELSE [err |-> "", files |-> files]
       ELSE IF endsWith(fn, <<".","h","t","m","l">>) \/ endsWith(fn, <<".","h","t","m">>)
       THEN [err |-> "", files |-> <<[filepath |-> IndexHtml, content |-> up.fileData]>>]
       ELSE [err |-> "badType", files |-> <<>>]

\* lines 99-102: the files in the shape sent to the deployment API
VercelFiles(files) == [i \in DOMAIN files |-> [file |-> files[i].filepath, data |-> files[i].content]]

\* lines 34-39
Incomplete(name, up) == name = <<>> \/ up.fileData = "" \/ up.fileName = <<>>
InvalidName(name) == ~NameMatches(name)

----------------------------------------------------------------------------
(* Observation of a run, per client: the date, number and time of its Success *)
(* responses, the date of its last quota lookup, the date of its last charge  *)
(* that followed a lookup of that date, and held: the record its last Success *)
(* charged is still its stored record and has not been reset for a new date   *)
(* since.                                                                     *)

NoHist == [succDate |-> -1, succN |-> 0, succAt |-> -1, chargedOn |-> -1,
           lookedOn |-> -1, held |-> FALSE]

\* held after a step that leaves the map as dd and the heap as ob
StillHeld(c, dd, ob) ==
    /\ hist[c].held
    /\ deploymentData[c] # NoRec
    /\ dd[c] = deploymentData[c]
    /\ ob[dd[c]].lastReset = objs[dd[c]].lastReset

HistKept(dd, ob) == [c \in Clients |-> [hist[c] EXCEPT !.held = StillHeld(c, dd, ob)]]

HistLooked(c, dd, ob) ==
    [HistKept(dd, ob) EXCEPT ![c].lookedOn = Today(now)]

HistCharged(c, dd, ob) ==
    [HistKept(dd, ob) EXCEPT
        ![c].chargedOn = IF hist[c].lookedOn = Today(now) THEN Today(now)
                         ELSE hist[c].chargedOn]

HistSuccess(c, dd, ob) ==
    [HistCharged(c, dd, ob) EXCEPT
        ![c].succDate = Today(now),
        ![c].succN = IF hist[c].succDate = Today(now) THEN hist[c].succN + 1 ELSE 1,
        ![c].succAt = now,
        ![c].held = TRUE]

Response(k, c, st, rq, cd, secs) ==
    [kind |-> k, clientId |-> c, status |-> st, remainingQuota |-> rq,
     cooldown |-> cd, remainingSeconds |-> secs, at |-> now]

StoredRemaining(c) ==
    IF deploymentData[c] = NoRec THEN -1 ELSE objs[deploymentData[c]].remaining

FreeSlot == CHOOSE s \in Slots : reqs[s].pc = "idle" /\ \A r \in Slots : reqs[r].pc = "idle" => s <= r

----------------------------------------------------------------------------
(* module.exports, lines 9-173 *)

Init ==
    /\ now = DayMs - 1
    /\ deploymentData = [c \in Clients |-> NoRec]
    /\ objs = [a \in Addrs |-> NullRec]
    /\ reqs = [s \in Slots |-> Idle]
    /\ last = NoResponse
    /\ ticks = 0
    /\ hist = [c \in Clients |-> NoHist]

\* an admission that also turns away a client while a request holding its
\* record is in flight
CooldownActive_Exclusive(rec, t) ==
    \/ rec.cooldownUntil > t
    \/ \E s \in Slots : reqs[s].pc = "awaiting" /\ objs[reqs[s].quotaInfo] = rec

\* lines 26, 44: quotaInfo.cooldownUntil > Date.now()
CooldownActive(rec, t) == rec.cooldownUntil > t

\* a quota check that lets the last-but-one request through
QuotaExhausted_Negative(rec) == rec.remaining < 0

\* line 53: quotaInfo.remaining <= 0
QuotaExhausted(rec) == rec.remaining <= 0

\* lines 15-16: OPTIONS and the methods other than POST
OtherMethod(c, m) ==
    /\ last' = IF m = "OPTIONS" THEN Response("preflight", c, 200, 0, FALSE, 0)
               ELSE Response("badMethod", c, 405, 0, FALSE, 0)
    /\ UNCHANGED <<now, deploymentData, objs, reqs, ticks, hist>>

\* lines 22-31: the quota-check path
QuotaCheck(c) ==
    LET q == getQuotaInfo(deploymentData, objs, reqs, c, now)
        rec == q.ob[q.data]
        cd == CooldownActive(rec, now)
    IN /\ deploymentData' = q.dd
       /\ objs' = Collect(q.dd, q.ob, reqs)
       /\ last' = Response("quotaCheck", c, 200, rec.remaining, cd,
                           IF cd THEN CeilSeconds(rec.cooldownUntil - now) ELSE 0)
       /\ hist' = HistLooked(c, q.dd, q.ob)
       /\ UNCHANGED <<now, reqs, ticks>>

\* lines 33-39: a deploy request that fails validation
DeployInvalid(c, r) ==
    /\ Incomplete(r.name, r.upload) \/ InvalidName(r.name)
    /\ last' = IF Incomplete(r.name, r.upload)
               THEN Response("incomplete", c, 400, 0, FALSE, 0)
               ELSE Response("invalidName", c, 400, 0, FALSE, 0)
    /\ UNCHANGED <<now, deploymentData, objs, reqs, ticks, hist>>

\* lines 41-125: a valid deploy request, up to its return or to await axios.post
DeployRequest(c, r) ==
    /\ ~Incomplete(r.name, r.upload)
    /\ ~InvalidName(r.name)
    /\ \E s \in Slots : reqs[s].pc = "idle"
    /\ LET q == getQuotaInfo(deploymentData, objs, reqs, c, now)
           rec == q.ob[q.data]
           pf == ProcessFiles(r.upload)
           s == FreeSlot
       IN /\ deploymentData' = q.dd
          /\ IF CooldownActive(rec, now)
             THEN /\ last' = Response("cooldown", c, 429, rec.remaining, TRUE,
                                      CeilSeconds(rec.cooldownUntil - now))
                  /\ reqs' = reqs
             ELSE IF QuotaExhausted(rec)
             THEN /\ last' = Response("quotaExhausted", c, 429, 0, FALSE, 0)
                  /\ reqs' = reqs
             ELSE IF pf.err = "serverError"
             THEN /\ last' = Response("serverError", c, 500, 0, FALSE, 0)
                  /\ reqs' = reqs
             ELSE IF pf.err = "zipNoIndex"
             THEN /\ last' = Response("zipNoIndex", c, 400, 0, FALSE, 0)
                  /\ reqs' = reqs
             ELSE IF pf.err = "badType"
             THEN /\ last' = Response("badType", c, 400, 0, FALSE, 0)
                  /\ reqs' = reqs
             ELSE IF ~r.token
             THEN /\ last' = Response("noToken", c, 500, 0, FALSE, 0)
                  /\ reqs' = reqs
             ELSE /\ last' = Response("submitted", c, 0, 0, FALSE, 0)
                  /\ reqs' = [reqs EXCEPT ![s] =
                                [pc |-> "awaiting", clientId |-> c, quotaInfo |-> q.data,
                                 stored |-> StoredRemaining(c), admitted |-> rec.remaining,
                                 deadline |-> now + TimeoutMs,
                                 files |-> VercelFiles(pf.files)]]
          /\ objs' = Collect(q.dd, q.ob, reqs')
          /\ hist' = HistLooked(c, q.dd, q.ob)
          /\ UNCHANGED <<now, ticks>>

\* a charge that starts no cooldown
ChargeSuccess_NoCooldown(rec, t) ==
    [rec EXCEPT !.remaining = rec.remaining - 1, !.lastDeployment = t, !.cooldownUntil = t]

\* lines 128-130: the charge of a successful deployment
ChargeSuccess(rec, t) ==
    [rec EXCEPT !.remaining = rec.remaining - 1, !.lastDeployment = t,
                !.cooldownUntil = t + CooldownMs]

\* a name-taken charge that starts a cooldown, as the success charge does
ChargeNameTaken_Cooldown(rec) ==
    [rec EXCEPT !.remaining = rec.remaining - 1, !.cooldownUntil = rec.lastDeployment + CooldownMs]

\* line 153: the charge of a name that is taken
ChargeNameTaken(rec) == [rec EXCEPT !.remaining = rec.remaining - 1]

\* lines 127-144: axios.post resolved
DeploySuccess(s, cap) ==
    /\ reqs[s].pc = "awaiting"
    /\ objs[reqs[s].quotaInfo].remaining > DailyLimit - cap
    /\ LET c == reqs[s].clientId
           a == reqs[s].quotaInfo
           rec == ChargeSuccess(objs[a], now)
           ob == [objs EXCEPT ![a] = rec]
           dd == saveQuotaInfo(deploymentData, c, a)
       IN /\ deploymentData' = dd
          /\ reqs' = [reqs EXCEPT ![s] = Idle]
          /\ objs' = Collect(dd, ob, reqs')
          /\ last' = Response("success", c, 200, rec.remaining, FALSE, 0)
          /\ hist' = HistSuccess(c, dd, ob)
          /\ UNCHANGED <<now, ticks>>

\* lines 146-160: axios.post rejected because the name is taken
DeployNameTaken(s, cap) ==
    /\ reqs[s].pc = "awaiting"
    /\ objs[reqs[s].quotaInfo].remaining > DailyLimit - cap
    /\ LET c == reqs[s].clientId
           a == reqs[s].quotaInfo
           rec == ChargeNameTaken(objs[a])
           ob == [objs EXCEPT ![a] = rec]
           dd == saveQuotaInfo(deploymentData, c, a)
       IN /\ deploymentData' = dd
          /\ reqs' = [reqs EXCEPT ![s] = Idle]
          /\ objs' = Collect(dd, ob, reqs')
          /\ last' = Response("nameTaken", c, 400, rec.remaining, FALSE, 0)
          /\ hist' = HistCharged(c, dd, ob)
          /\ UNCHANGED <<now, ticks>>

\* a failure that charges the request, as the name-taken branch does
DeployFailed_Charged(s) ==
    /\ reqs[s].pc = "awaiting"
    /\ LET c == reqs[s].clientId
           a == reqs[s].quotaInfo
           ob == [objs EXCEPT ![a] = ChargeNameTaken(objs[a])]
           dd == saveQuotaInfo(deploymentData, c, a)
       IN /\ deploymentData' = dd
          /\ reqs' = [reqs EXCEPT ![s] = Idle]
          /\ objs' = Collect(dd, ob, reqs')
          /\ last' = Response("deployFailed", c, 500, 0, FALSE, 0)
          /\ hist' = HistCharged(c, dd, ob)
          /\ UNCHANGED <<now, ticks>>

\* a failure that submits the deployment once more
DeployFailed_Retry(s) ==
    /\ reqs[s].pc = "awaiting"
    /\ reqs' = [reqs EXCEPT ![s].deadline = now + TimeoutMs]
    /\ last' = Response("submitted", reqs[s].clientId, 0, 0, FALSE, 0)
    /\ UNCHANGED <<now, deploymentData, objs, ticks, hist>>

\* lines 146-148, 162-164: axios.post rejected otherwise (an API error, a
\* transport failure, the timeout)
DeployFailed(s) ==
    /\ reqs[s].pc = "awaiting"
    /\ reqs' = [reqs EXCEPT ![s] = Idle]
    /\ objs' = Collect(deploymentData, objs, reqs')
    /\ last' = Response("deployFailed", reqs[s].clientId, 500, 0, FALSE, 0)
    /\ UNCHANGED <<now, deploymentData, ticks, hist>>

\* the clock moves by d; a request in flight ends by its timeout (line 123)
Tick(d, max) ==
    /\ ticks < max
    /\ \A s \in Slots : reqs[s].pc = "awaiting" => now + d <= reqs[s].deadline
    /\ now' = now + d
    /\ ticks' = ticks + 1
    /\ last' = NoResponse
    /\ UNCHANGED <<deploymentData, objs, reqs, hist>>

\* the clock moves by d and the last response stays on record
Elapse(d, max) ==
    /\ ticks < max
    /\ \A s \in Slots : reqs[s].pc = "awaiting" => now + d <= reqs[s].deadline
    /\ now' = now + d
    /\ ticks' = ticks + 1
    /\ UNCHANGED <<deploymentData, objs, reqs, last, hist>>

----------------------------------------------------------------------------
(* Specifications *)

\* two clients, one of them deploying, over a change of date
Next ==
    \/ \E c \in Clients : QuotaCheck(c)
    \/ \E c \in Deployers, r \in PlainRequests : DeployInvalid(c, r)
    \/ \E c \in Deployers, r \in PlainRequests : DeployRequest(c, r)
    \/ \E s \in Slots : DeploySuccess(s, MaxCharges)
    \/ \E s \in Slots : DeployNameTaken(s, MaxCharges)
    \/ \E s \in Slots : DeployFailed(s)
    \/ \E d \in {1, CooldownMs, DayMs} : Tick(d, MaxTicks)

Spec == Init /\ [][Next]_vars

\* one client and every kind of request and upload
NextUpload ==
    \/ QuotaCheck(1)
    \/ \E m \in {"OPTIONS", "GET"} : OtherMethod(1, m)
    \/ \E r \in Requests : DeployInvalid(1, r)
    \/ \E r \in Requests : DeployRequest(1, r)
    \/ \E s \in Slots : DeploySuccess(s, MaxCharges)
    \/ \E s \in Slots : DeployNameTaken(s, MaxCharges)
    \/ \E s \in Slots : DeployFailed(s)
    \/ Tick(CooldownMs, MaxTicks)

SpecUpload == Init /\ [][NextUpload]_vars

\* lines 105-125: the promise of axios.post settles, by a response, an error or
\* the timeout of 30 s, and the handler resumes
Settles(s) ==
    \/ DeploySuccess(s, MaxCharges)
    \/ DeployNameTaken(s, MaxCharges)
    \/ DeployFailed(s)

\* the same requests, with every submission settled in the end
SpecSettle == Init /\ [][NextUpload]_vars /\ \A s \in Slots : WF_vars(Settles(s))

\* one client that uses up its quota: every charge down to the last
NextExhaust ==
    \/ QuotaCheck(1)
    \/ DeployRequest(1, Request(ValidName, HtmlUpload, TRUE))
    \/ \E s \in Slots : DeploySuccess(s, DailyLimit + Cardinality(Slots))
    \/ \E s \in Slots : DeployNameTaken(s, DailyLimit + Cardinality(Slots))
    \/ \E s \in Slots : DeployFailed(s)
    \/ Tick(DayMs, MaxExhaustTicks)

SpecExhaust == Init /\ [][NextExhaust]_vars

\* one client whose deployments all succeed, one cooldown after the other
NextDrain ==
    \/ DeployRequest(1, Request(ValidName, HtmlUpload, TRUE))
    \/ \E s \in Slots : DeploySuccess(s, DailyLimit + Cardinality(Slots))
    \/ Tick(CooldownMs, MaxDrainTicks)

SpecDrain == Init /\ [][NextDrain]_vars

\* one client that asks again and again while its cooldown runs down
NextCooldown ==
    \/ QuotaCheck(1)
    \/ DeployRequest(1, Request(ValidName, HtmlUpload, TRUE))
    \/ \E s \in Slots : DeploySuccess(s, MaxCharges)
    \/ \E d \in {1, 1000, CooldownMs} : Elapse(d, MaxCooldownTicks)

SpecCooldown == Init /\ [][NextCooldown]_vars

----------------------------------------------------------------------------
(* Claims *)

\* the record the map holds for client c
Stored(c) == objs[deploymentData[c]]

\* C1: in every reachable state, every client that has a record in the quota
\* store has 0 <= remaining <= 50, overlapping requests of one client included.
C1_RemainingInRange ==
    \A c \in Clients :
        deploymentData[c] # NoRec =>
            0 <= Stored(c).remaining /\ Stored(c).remaining <= DailyLimit

\* C2: for every client and every calendar date, at most 50 deploy requests of
\* the client end in the Success response on that date.
C2_AtMostLimitPerDate ==
    \A c \in Clients : hist[c].succN <= DailyLimit


\* the outcomes of a well-formed deploy request at its arrival
ArrivalKinds ==
    {"cooldown", "quotaExhausted", "serverError", "zipNoIndex", "badType", "noToken",
     "submitted"}

Gets50(c) ==
    /\ deploymentData'[c] # NoRec
    /\ objs'[deploymentData'[c]].remaining = DailyLimit
    /\ (deploymentData[c] = NoRec \/ Stored(c).remaining # DailyLimit)

\* C4: a client's remaining is set back to 50 once per calendar date, by the
\* first lookup of that date: once the client was charged after that lookup, no
\* lookup, sweep or re-creation on the same date gives it remaining = 50 again.
C4_ResetOncePerDate ==
    [][\A c \in Clients : hist[c].chargedOn = Today(now') => ~Gets50(c)]_vars

\* C5: consecutive quota-check requests of a client, with nothing between them,
\* report the same remainingQuota and leave the client's remaining unchanged.
C5_QuotaCheckIdempotent ==
    [][(last.kind = "quotaCheck" /\ last'.kind = "quotaCheck"
        /\ last'.clientId = last.clientId)
       => /\ last'.remainingQuota = last.remainingQuota
          /\ deploymentData[last.clientId] # NoRec
                => /\ deploymentData'[last.clientId] # NoRec
                   /\ objs'[deploymentData'[last.clientId]].remaining
                        = Stored(last.clientId).remaining]_vars


\* the request of slot s ends in this step with a response of kind k
Ends(s, k) == reqs[s].pc = "awaiting" /\ reqs'[s].pc = "idle" /\ last'.kind = k

Arrives(c) == last'.kind \in ArrivalKinds /\ last'.clientId = c

Rejected429 == last'.status = 429 /\ last'.remainingQuota = 0 /\ reqs' = reqs

\* C7: a deploy request of a client whose remaining is 0 is rejected with 429
\* and remainingQuota 0, with or without a cooldown, and is not submitted.
C7_ZeroStoredRejected ==
    [][\A c \in Clients :
          (deploymentData[c] # NoRec /\ Stored(c).remaining = 0 /\ Arrives(c))
          => Rejected429]_vars

\* C7, amended: the same for a request whose remaining is 0 after its quota
\* lookup, which sets it back to 50 on a new date.
C7_ZeroAfterLookupRejected ==
    [][\A c \in Clients :
          LET q == getQuotaInfo(deploymentData, objs, reqs, c, now)
          IN (q.ob[q.data].remaining = 0 /\ Arrives(c)) => Rejected429]_vars

\* C7, witness: a request is rejected for its cooldown with remaining 0
C7_Witness ==
    \E c \in Clients :
        /\ last.kind = "cooldown" /\ last.clientId = c /\ last.remainingQuota = 0
        /\ deploymentData[c] # NoRec /\ Stored(c).remaining = 0

\* the characters a name may hold
NameChars ==
    {"a","b","c","d","e","f","g","h","i","j","k","l","m","n","o","p","q","r","s","t",
     "u","v","w","x","y","z","0","1","2","3","4","5","6","7","8","9","-"}

Malformed(r) ==
    \/ r.name = <<>> \/ r.upload.fileData = "" \/ r.upload.fileName = <<>>
    \/ \E i \in DOMAIN r.name : r.name[i] \notin NameChars

\* C8: a deploy request that lacks a field or whose name is not in [a-z0-9-]+
\* is never taken to the quota processing: it is answered with 400, and the
\* store and the requests in flight are as before.
C8_InvalidBeforeQuota ==
    [][\A c \in Clients, r \in Requests :
          Malformed(r) =>
              /\ ~DeployRequest(c, r)
              /\ DeployInvalid(c, r)
                    => /\ last'.status = 400
                       /\ UNCHANGED <<deploymentData, objs, reqs, hist>>]_vars

\* C8, witness: "My Site" is answered while the store holds a charged record
C8_Witness ==
    /\ last.kind = "invalidName" /\ last.status = 400
    /\ deploymentData[last.clientId] # NoRec
    /\ Stored(last.clientId).remaining < DailyLimit

C10_SuccessCharge ==
    [][\A s \in Slots :
          Ends(s, "success") =>
              LET c == reqs[s].clientId
                  a == reqs[s].quotaInfo
              IN /\ deploymentData'[c] = a
                 /\ objs'[a].remaining = objs[a].remaining - 1
                 /\ objs'[a].lastDeployment = now
                 /\ objs'[a].cooldownUntil = now + CooldownMs
                 /\ last'.remainingQuota = reqs[s].admitted - 1]_vars


\* the request r carries an archive that AdmZip reads
IsArchive(r) ==
    /\ ~Malformed(r)
    /\ endsWith(toLowerCase(r.upload.fileName), <<".","z","i","p">>)
    /\ r.upload.zipOk

\* the entries of r's archive that survive: files that pass isSafeFile
Surviving(r) ==
    {i \in DOMAIN r.upload.entries :
        ~r.upload.entries[i].isDirectory /\ isSafeFile(r.upload.entries[i].entryName)}

NoIndexArchive(r) ==
    /\ IsArchive(r)
    /\ \A i \in Surviving(r) : toLowerCase(r.upload.entries[i].entryName) # IndexHtml

\* no record of the store or of a request in flight has less remaining after the step
NoCharge ==
    /\ \A c \in Clients :
          (deploymentData[c] # NoRec /\ deploymentData'[c] # NoRec)
          => objs'[deploymentData'[c]].remaining >= Stored(c).remaining
    /\ \A s \in Slots :
          (reqs[s].pc = "awaiting" /\ reqs'[s].pc = "awaiting")
          => objs'[reqs'[s].quotaInfo].remaining >= objs[reqs[s].quotaInfo].remaining

\* C11: an archive request with a valid name and no surviving index.html is
\* rejected with status 400 in every quota state of the client, and charges no quota.
C11_NoIndexRejected400 ==
    [][\A c \in Clients, r \in Requests :
          (NoIndexArchive(r) /\ DeployRequest(c, r))
          => (last'.status = 400 /\ reqs' = reqs /\ NoCharge)]_vars

\* C11, amended: such a request is never submitted and charges no quota; it is
\* rejected with 400 when its lookup finds no active cooldown and remaining > 0,
\* and with the 429 of the admission check otherwise.
C11_NoIndexRejectedOnceAdmitted ==
    [][\A c \in Clients, r \in Requests :
          (NoIndexArchive(r) /\ DeployRequest(c, r))
          => LET q == getQuotaInfo(deploymentData, objs, reqs, c, now)
                 rec == q.ob[q.data]
             IN /\ reqs' = reqs
                /\ NoCharge
                /\ last'.status = IF rec.cooldownUntil > now \/ rec.remaining <= 0
                                  THEN 429 ELSE 400
                /\ last'.status = 400 => last'.kind = "zipNoIndex"]_vars

\* C11, witness: an archive without index.html is answered with 400 for a client
\* that was charged before
C11_Witness ==
    /\ last.kind = "zipNoIndex" /\ last.status = 400
    /\ deploymentData[last.clientId] # NoRec
    /\ Stored(last.clientId).remaining < DailyLimit


\* the archive of index.html, a.exe and ../../etc/passwd, under a valid name
MixedRequest == Request(ValidName, Upload(<<"s",".","Z","I","P">>, "zip64", TRUE, ArchiveMixed), TRUE)

\* a file set as the claim wants it
SafeFileSet(files) ==
    /\ Len(files) >= 1
    /\ \E i \in DOMAIN files : toLowerCase(files[i].file) = IndexHtml
    /\ \A i \in DOMAIN files : isSafeFile(files[i].file)

\* C12: every file set submitted is non-empty, holds an index.html (in any case)
\* and holds only entries that pass isSafeFile; the archive of index.html, a.exe
\* and ../../etc/passwd is submitted, once admitted, with index.html only.
C12_SubmittedFilesSafe ==
    [][/\ \A s \in Slots : reqs'[s].pc = "awaiting" => SafeFileSet(reqs'[s].files)
       /\ \A c \in Clients :
             (DeployRequest(c, MixedRequest) /\ last'.status # 429)
             => /\ last'.kind = "submitted"
                /\ \E s \in Slots :
                      /\ reqs[s].pc = "idle"
                      /\ reqs'[s].pc = "awaiting"
                      /\ reqs'[s].files = <<[file |-> IndexHtml, data |-> "d1"]>>]_vars

\* C12, witness: the mixed archive is in flight with index.html only
C12_Witness ==
    /\ last.kind = "submitted"
    /\ \E s \in Slots :
          /\ reqs[s].pc = "awaiting"
          /\ reqs[s].files = <<[file |-> IndexHtml, data |-> "d1"]>>


Htaccess == <<".","h","t","a","c","c","e","s","s">>

\* the path n is among the files the step submits
Submits(n) ==
    \E s \in Slots :
        /\ reqs[s].pc = "idle"
        /\ reqs'[s].pc = "awaiting"
        /\ \E j \in DOMAIN reqs'[s].files : reqs'[s].files[j].file = n

\* C13: of the archive entries whose base name starts with a dot, the safety
\* filter keeps exactly those whose base name is .htaccess, in a path with no
\* '..' and no '//': they are among the files submitted, the others are not.
C13_HtaccessSurvives ==
    [][\A c \in Clients, r \in Requests :
          (IsArchive(r) /\ DeployRequest(c, r) /\ last'.kind = "submitted")
          => \A i \in DOMAIN r.upload.entries :
                LET e == r.upload.entries[i]
                    n == e.entryName
                IN (~e.isDirectory /\ startsWith(basename(n), <<".">>))
                   => ( Submits(n)
                        <=> ( /\ basename(n) = Htaccess
                              /\ ~includes(n, <<".", ".">>)
                              /\ ~includes(n, <<"/", "/">>) ) )]_vars


\* C14: while a deploy request is between its quota lookup and its charge or
\* response, no other request reads, creates, resets, deletes or charges a
\* record of the map, and none mutates the record the request holds.
C14_NoInterleaving ==
    [][\A s \in Slots :
          (reqs[s].pc = "awaiting" /\ reqs'[s] = reqs[s])
          => /\ last'.kind \notin ArrivalKinds \cup {"quotaCheck"} \/ last' = last
             /\ deploymentData' = deploymentData
             /\ objs'[reqs[s].quotaInfo] = objs[reqs[s].quotaInfo]]_vars


\* the request of slot s is in flight for client c and its record has not been
\* charged since its admission
Uncharged(s, c) ==
    /\ reqs[s].pc = "awaiting"
    /\ reqs[s].clientId = c
    /\ objs[reqs[s].quotaInfo].remaining = reqs[s].admitted

\* C15: lookup, admission and charge are not atomic. A deploy request of a client
\* that arrives while another request of the client is in flight and uncharged,
\* and whose lookup finds no cooldown and remaining > 0, passes admission as if
\* the other were not there: it is submitted too, and both are in flight.
C15_AdmittedWhileInFlight ==
    [][\A c \in Clients :
          LET q == getQuotaInfo(deploymentData, objs, reqs, c, now)
              rec == q.ob[q.data]
          IN ( /\ \E s \in Slots : Uncharged(s, c)
               /\ Arrives(c)
               /\ last'.kind \in {"cooldown", "quotaExhausted", "submitted"}
               /\ rec.cooldownUntil <= now
               /\ rec.remaining > 0 )
             => /\ last'.kind = "submitted"
                /\ \A s \in Slots : reqs'[s].pc = "awaiting" /\ reqs'[s].clientId = c]_vars

\* C15, witness: two requests of one client have passed admission on the same
\* record and neither has applied its charge
C15_Witness ==
    \E c \in Clients :
        /\ \A s \in Slots : Uncharged(s, c) /\ reqs[s].admitted > 0
        /\ \A s, t \in Slots : reqs[s].quotaInfo = reqs[t].quotaInfo
        /\ deploymentData[c] # NoRec
        /\ ~CooldownActive(Stored(c), now)


\* the step is a quota lookup of client c: a quota-check or a well-formed deploy
\* request
Looks(c) == last'.kind \in ArrivalKinds \cup {"quotaCheck"} /\ last'.clientId = c

\* the lastDeployment of client k's record when the sweep of a lookup by c looks
\* at it (0: none recorded; the record of c has just been created if it had none)
SweptLastDeployment(k) ==
    IF deploymentData[k] = NoRec THEN 0 ELSE Stored(k).lastDeployment

\* C16: the sweep of every getQuotaInfo call deletes exactly the records whose
\* lastDeployment is set and lies more than 24 hours before now, the record of
\* the client looked up included, and leaves every other record as it is; a
\* record without a lastDeployment is never deleted.
C16_SweepDeletesExpired ==
    [][\A c \in Clients :
          Looks(c) =>
            \A k \in Clients :
              LET ld == SweptLastDeployment(k)
                  old == ld # 0 /\ now - ld > 24 * 60 * 60 * 1000
              IN IF deploymentData[k] = NoRec /\ k # c
                 THEN deploymentData'[k] = NoRec
                 ELSE /\ deploymentData'[k] = NoRec <=> old
                      /\ (~old /\ deploymentData[k] # NoRec)
                            => /\ deploymentData'[k] = deploymentData[k]
                               /\ objs'[deploymentData'[k]].lastDeployment = ld
                               /\ k # c => objs'[deploymentData'[k]] = Stored(k)
                      /\ ld = 0 => deploymentData'[k] # NoRec]_vars

\* C16, witness: after a quota-check of one client, more than 24 hours after the
\* Success of another, the record of the other is gone and the record of the
\* first, which has no deployment, is kept
C16_Witness ==
    \E c, k \in Clients :
        /\ c # k
        /\ last.kind = "quotaCheck" /\ last.clientId = c
        /\ deploymentData[c] # NoRec /\ Stored(c).lastDeployment = 0
        /\ deploymentData[k] = NoRec
        /\ hist[k].succAt >= 0 /\ now - hist[k].succAt > DayMs


\* the response r tells a client that its cooldown is active
ReportsCooldown(r) == r.kind \in {"cooldown", "quotaCheck"} /\ r.cooldown

\* two consecutive reports of a cooldown to one client, at different times
ConsecutiveReports ==
    /\ ReportsCooldown(last) /\ ReportsCooldown(last')
    /\ last'.clientId = last.clientId
    /\ last'.at > last.at

\* last'.remainingSeconds is ceil((cooldownUntil - now) / 1000)
IsCeilOfCooldown ==
    LET c == last'.clientId
        x == objs'[deploymentData'[c]].cooldownUntil - now
    IN /\ deploymentData'[c] # NoRec
       /\ last'.remainingSeconds * 1000 >= x
       /\ (last'.remainingSeconds - 1) * 1000 < x

\* C17: while a cooldown is active, the remainingSeconds of consecutive cooldown
\* rejections and quota-checks are strictly decreasing, each the ceiling of
\* (cooldownUntil - now) / 1000.
C17_SecondsStrictlyDecrease ==
    [][ConsecutiveReports
       => (last'.remainingSeconds < last.remainingSeconds /\ IsCeilOfCooldown)]_vars

\* C17, amended: every report is the ceiling of (cooldownUntil - now) / 1000;
\* of two consecutive reports the later is never the greater, and it is the
\* smaller when the two are at least 1000 ms apart.
C17_SecondsNeverIncrease ==
    [][/\ (ReportsCooldown(last') /\ last'.at = now) => IsCeilOfCooldown
       /\ ConsecutiveReports
             => /\ last'.remainingSeconds <= last.remainingSeconds
                /\ last'.at - last.at >= 1000
                      => last'.remainingSeconds < last.remainingSeconds]_vars

\* C17, witness: a cooldown reported some time after the Success, with less than
\* the full 300 seconds left
C17_Witness ==
    /\ ReportsCooldown(last)
    /\ last.at = now
    /\ hist[last.clientId].held
    /\ 0 < last.remainingSeconds /\ last.remainingSeconds * 1000 < CooldownMs


\* the request r passes validation, the file processing and the credential check
Submittable(r) ==
    /\ ~Malformed(r)
    /\ r.token
    /\ LET fn == toLowerCase(r.upload.fileName)
       IN \/ IsArchive(r) /\ ~NoIndexArchive(r)
          \/ /\ ~endsWith(fn, <<".","z","i","p">>)
             /\ endsWith(fn, <<".","h","t","m","l">>) \/ endsWith(fn, <<".","h","t","m">>)

\* a step submits at most once, for a request that has just arrived, and only
\* after validation, admission, file processing and the credential check
SubmitsOnce ==
    /\ \A s \in Slots :
          (reqs[s].pc = "idle" /\ reqs'[s].pc = "awaiting")
          => /\ last'.kind = "submitted"
             /\ \A t \in Slots \ {s} : reqs'[t] = reqs[t]
    /\ last'.kind = "submitted" => \E s \in Slots : reqs[s].pc = "idle" /\ reqs'[s].pc = "awaiting"
    /\ \A c \in Clients, r \in Requests :
          (DeployRequest(c, r) /\ last'.kind = "submitted")
          => LET q == getQuotaInfo(deploymentData, objs, reqs, c, now)
             IN /\ Submittable(r)
                /\ q.ob[q.data].cooldownUntil <= now
                /\ q.ob[q.data].remaining > 0

\* a request in flight is not submitted again, and it ends in one step with one
\* response to its client: Success, name taken or the failure
EndsOnce ==
    \A s \in Slots :
        reqs[s].pc = "awaiting"
        => \/ reqs'[s] = reqs[s]
           \/ /\ reqs'[s] = Idle
              /\ last'.kind \in {"success", "nameTaken", "deployFailed"}
              /\ last'.clientId = reqs[s].clientId
              /\ last'.status \in {200, 400, 500}
              /\ \A t \in Slots \ {s} : reqs'[t] = reqs[t]

\* C18: every request ends with one response and submits at most once: a
\* submission is made only after validation, admission, file processing and the
\* credential check, it is never repeated after a failure or the timeout, and
\* every request in flight is answered in the end.
C18_OneResponseNoRetry ==
    /\ [][SubmitsOnce /\ EndsOnce]_vars
    /\ \A s \in Slots : (reqs[s].pc = "awaiting") ~> (reqs[s].pc = "idle")

\* C18, witness: a submission has failed, its request is answered with 500 and
\* nothing is in flight
C18_Witness ==
    /\ last.kind = "deployFailed" /\ last.status = 500
    /\ \A s \in Slots : reqs[s] = Idle


\* C19: after the quota lookup of a request the map holds a record under the
\* client, and it is the record the lookup returned: the one whose remaining a
\* quota-check or a cooldown rejection reports.
C19_LookupStoresReturned ==
    (last.kind \in ArrivalKinds \cup {"quotaCheck"} /\ last.at = now)
    => /\ deploymentData[last.clientId] # NoRec
       /\ last.kind \in {"quotaCheck", "cooldown"}
             => Stored(last.clientId).remaining = last.remainingQuota
       /\ \A s \in Slots :
             (last.kind = "submitted" /\ reqs[s].pc = "awaiting"
              /\ reqs[s].clientId = last.clientId /\ reqs[s].deadline = now + TimeoutMs)
             => reqs[s].quotaInfo = deploymentData[last.clientId]


\* C20: a client's remaining decreases only by the charge of a request of the
\* client that ends in Success or in the name-taken response, by exactly 1 for
\* such a request; a step of any other response decreases no remaining and sets
\* no cooldownUntil to a later time.
C20_OnlyChargesDecrease ==
    [][\A c \in Clients :
          (deploymentData[c] # NoRec /\ deploymentData'[c] # NoRec)
          => LET before == Stored(c)
                 after == objs'[deploymentData'[c]]
                 charged == last'.kind \in {"success", "nameTaken"} /\ last'.clientId = c
             IN /\ after.remaining < before.remaining
                      => (charged /\ after.remaining = before.remaining - 1)
                /\ ~charged => after.cooldownUntil <= before.cooldownUntil]_vars

====
